---- MODULE Spec2Model ----
(***************************************************************************)
(* Model of the genesis backend (backend/src): the job ("project")         *)
(* orchestration of main.rs, the partial-update store of database.rs, the  *)
(* record constructors of models.rs and the sliding-window rate limiter    *)
(* and request validation of validation.rs.                                *)
(*                                                                         *)
(* Granularity.  The server is started by #[actix_web::main] (main.rs:330):*)
(* every worker drives its handlers and the tasks they tokio::spawn on one *)
(* thread, so the code between two .await points runs without             *)
(* interleaving.  One action of the model is therefore "an awaited         *)
(* operation completes with some outcome, and the code runs on to the next *)
(* .await".  A store operation returns Ok (applied) or Err (not applied).  *)
(***************************************************************************)
EXTENDS Integers, Sequences, FiniteSets, TLC

\* ---------------------------------------------------------------- bounds
MaxReqs == 2          \* POST /generate requests handled in one run
MaxTime == 3          \* the clock runs 0..MaxTime
MaxMiddlewareCalls == 3 \* rate_limit_middleware invocations in one run
MaxCalls == 5         \* calls made on the RateLimiter itself in one run
MaxLockCalls == 4     \* is_allowed calls by concurrent worker threads in one run
MaxHealthCalls == 2   \* health requests answered in one run
MaxStoreCalls == 3    \* calls made on the DatabaseService itself in one run

\* ------------------------------------------------------- option encoding
\* Rust's Option<T>: None is the empty sequence, Some(x) a one-element one.
None == <<>>
Some(x) == <<x>>
IsSome(o) == Len(o) = 1
Unwrap(o) == o[1]
UnwrapOr(o, d) == IF IsSome(o) THEN o[1] ELSE d

\* ------------------------------------------------------------- inputs
Clients == {"10.0.0.1", "10.0.0.2"}

\* The worker threads of the HttpServer that can be inside the RateLimiter
\* at the same time.
Workers == {"worker-1", "worker-2"}

\* A prompt is represented by what the validators read of it: its number of
\* characters, how many of them are not whitespace, and whether its
\* lower-cased text contains one of the harmful keywords.
Prompt(chars, nonspace, keyword) ==
    [chars |-> chars, nonspace |-> nonspace, keyword |-> keyword]
PromptReact == Prompt(31, 27, FALSE)   \* "Create a simple React component"
PromptEmpty == Prompt(0, 0, FALSE)     \* ""
PromptDrop == Prompt(25, 21, TRUE)     \* "please drop all my tables"

\* The JSON bodies POSTed to /generate: GenerateRequest { prompt, backend }.
GenerateRequest(prompt, backend) == [prompt |-> prompt, backend |-> backend]
GenerateRequests ==
    { GenerateRequest(PromptReact, Some("openai")),
      GenerateRequest(PromptEmpty, None) }

\* ------------------------------------------------------------- statuses
Pending == "Pending"
Generating == "Generating"
Completed == "Completed"
Failed == "Failed"
ProjectStatus == {Pending, Generating, Completed, Failed}
Terminal == {Completed, Failed}

VARIABLES
    now,        \* the clock (Utc::now / Instant::now)
    requests,   \* RateLimiter.requests: client id -> admission timestamps
    admitted,   \* history: is_allowed calls the middleware saw answered true
    calls,      \* history: rate_limit_middleware invocations so far
    http,       \* the generate_project invocations, in order of arrival
    store,      \* the "projects" collection: project_id -> ProjectRecord
    task,       \* the spawned generate_project_async tasks, by project_id
    spawns,     \* history: tokio::spawn calls per project_id
    log,        \* history: per project_id, store operations and call events
    observed,   \* history: per project_id, the statuses polls have shown
    answer,     \* history: per project_id, what its call to the AI core ended in
    calllog,    \* history: the calls made on the RateLimiter itself, in order
    healthlog,  \* history: the responses of the health handlers, in order
    lock,       \* RateLimiter.requests' Mutex: None, or Some(thread holding it)
    thread,     \* the worker threads inside is_allowed: position and locals
    dbcall,     \* the update_one a caller of update_project is awaiting, if any
    dblast      \* history: the last store call that completed

vars == <<now, requests, admitted, calls, http, store, task, spawns, log, observed,
          answer, calllog, healthlog, lock, thread, dbcall, dblast>>

limiterVars == <<requests, admitted, calls, calllog>>
jobVars == <<http, store, task, spawns, log>>
healthVars == <<healthlog>>
lockVars == <<lock, thread>>
dbVars == <<dbcall, dblast>>

ProjectIds == 1..MaxReqs

\* ------------------------------------------------- validation.rs (pure)
PromptMinLen == 10
PromptMaxLen == 2000

\* BACKEND_REGEX ^(ollama|openai)$ ; validator skips a None option.
BackendRegexMatches(backend) ==
    ~IsSome(backend) \/ Unwrap(backend) \in {"ollama", "openai"}

\* validate_generate_request: TRUE iff it returns Ok(req).
validate_generate_request(prompt, backend) ==
    /\ prompt.chars >= PromptMinLen
    /\ prompt.chars <= PromptMaxLen
    /\ BackendRegexMatches(backend)
    /\ prompt.nonspace > 0
    /\ ~prompt.keyword

\* ------------------------------------------------- validation.rs limiter
MaxRequests == 2      \* RateLimiter.max_requests
WindowDuration == 2   \* RateLimiter.window_duration, in clock ticks

\* Mutant: the comparison is <= instead of <.
Retain_inclusive(times, t) == SelectSeq(times, LAMBDA time : t - time <= WindowDuration)

\* Vec::retain(|&time| now.duration_since(time) < window_duration)
Retain(times, t) == SelectSeq(times, LAMBDA time : t - time < WindowDuration)

\* Mutant: is_allowed does not prune before it counts.
PrunedWindow_keeps_all(reqs, client_id, t) ==
    IF client_id \in DOMAIN reqs THEN reqs[client_id] ELSE <<>>

\* The window of client_id after the pruning step of is_allowed
\* (entry(..).or_insert_with(Vec::new) gives an unknown client an empty one).
PrunedWindow(reqs, client_id, t) ==
    IF client_id \in DOMAIN reqs THEN Retain(reqs[client_id], t) ELSE <<>>

\* Mutant: the limit is compared with > instead of >=.
is_allowed_off_by_one(reqs, client_id, t) ==
    ~(Len(PrunedWindow(reqs, client_id, t)) > MaxRequests)

\* RateLimiter::is_allowed: the value it returns ...
is_allowed(reqs, client_id, t) ==
    ~(Len(PrunedWindow(reqs, client_id, t)) >= MaxRequests)

\* Mutant: the pruning runs over the windows of all clients.
is_allowed_requests_prunes_all(reqs, client_id, t) ==
    LET kept == PrunedWindow(reqs, client_id, t)
        next == IF Len(kept) >= MaxRequests THEN kept ELSE Append(kept, t)
    IN  [c \in DOMAIN reqs \cup {client_id} |->
            IF c = client_id THEN next ELSE Retain(reqs[c], t)]

\* ... and the map it leaves behind.
is_allowed_requests(reqs, client_id, t) ==
    LET kept == PrunedWindow(reqs, client_id, t)
        next == IF Len(kept) >= MaxRequests THEN kept ELSE Append(kept, t)
    IN  [c \in DOMAIN reqs \cup {client_id} |->
            IF c = client_id THEN next ELSE reqs[c]]

\* Mutant: lock() returns whoever holds the mutex.
Mutex_lock_unguarded(lk, w) == TRUE

\* Mutex::lock (line 40): TRUE iff the call can return, i.e. no thread holds
\* the mutex.  (No step under the guard can panic, so it is never poisoned.)
Mutex_lock(lk, w) == lk = None

\* HashMap::entry(client_id).or_insert_with(Vec::new) (line 49)
OrInsertEmpty(reqs, client_id) ==
    [c \in DOMAIN reqs \cup {client_id} |-> IF c \in DOMAIN reqs THEN reqs[c] ELSE <<>>]

\* usize::saturating_sub
SaturatingSub(a, b) == IF a >= b THEN a - b ELSE 0

\* Mutant: the stored timestamps are counted without the filter.
get_remaining_requests_unfiltered(reqs, client_id, t) ==
    IF client_id \in DOMAIN reqs
    THEN SaturatingSub(MaxRequests, Len(reqs[client_id]))
    ELSE MaxRequests

\* RateLimiter::get_remaining_requests: the value it returns ...
get_remaining_requests(reqs, client_id, t) ==
    IF client_id \in DOMAIN reqs
    THEN SaturatingSub(MaxRequests, Len(Retain(reqs[client_id], t)))
    ELSE MaxRequests

\* Mutant: the client's window is pruned in place, as is_allowed does.
get_remaining_requests_map_pruning(reqs, client_id, t) ==
    [c \in DOMAIN reqs |-> IF c = client_id THEN Retain(reqs[c], t) ELSE reqs[c]]

\* ... and the map it leaves behind: it only reads through the guard
\* (requests.get, iter().filter), so the map is as it was.
get_remaining_requests_map(reqs, client_id, t) == reqs

\* ------------------------------------------------------ models.rs (pure)
\* ProjectRecord::new
ProjectRecord_new(project_id, prompt, backend, t) ==
    [ project_id |-> project_id,
      prompt     |-> prompt,
      files      |-> <<>>,
      output     |-> "",
      status     |-> Generating,
      created_at |-> t,
      updated_at |-> t,
      backend    |-> backend,
      metadata   |-> None ]

\* ProjectUpdate { status, files, output, metadata }
ProjectUpdate(status, files, output, metadata) ==
    [status |-> status, files |-> files, output |-> output, metadata |-> metadata]

GeneratedFile(name, content, language) ==
    [ name |-> name, content |-> content, language |-> language,
      size |-> None, last_modified |-> None ]

\* ---------------------------------------------------- database.rs (pure)
\* DatabaseService::create_project, Ok branch: insert_one adds the document.
create_project(st, record) ==
    [id \in DOMAIN st \cup {record.project_id} |->
        IF id = record.project_id THEN record ELSE st[id]]

\* Mutant: the whole document is replaced, absent fields taking defaults.
update_project_replaces(st, project_id, update, t) ==
    [id \in DOMAIN st |->
        IF id # project_id THEN st[id]
        ELSE [st[id] EXCEPT
                !.status     = UnwrapOr(update.status, @),
                !.files      = UnwrapOr(update.files, <<>>),
                !.output     = UnwrapOr(update.output, ""),
                !.metadata   = update.metadata,
                !.updated_at = t]]

\* DatabaseService::update_project, Ok branch: $set of the fields present
\* plus updated_at on the document matching project_id (none: no change).
update_project(st, project_id, update, t) ==
    [id \in DOMAIN st |->
        IF id # project_id THEN st[id]
        ELSE [st[id] EXCEPT
                !.status     = UnwrapOr(update.status, @),
                !.files      = UnwrapOr(update.files, @),
                !.output     = UnwrapOr(update.output, @),
                !.metadata   = IF IsSome(update.metadata) THEN update.metadata ELSE @,
                !.updated_at = t]]

\* Number of store calls completed so far, kept with the last one.
StoreCalls(last) == IF IsSome(last) THEN Unwrap(last).seq ELSE 0

\* ------------------------------------------ the Generation Service's replies
\* A file entry of data.files: each key is a string (Some) or missing/not a
\* string (None).
Entry(name, content, language) ==
    [name |-> name, content |-> content, language |-> language]
EntryMain == Entry(Some("main.rs"), Some("fn main() {}"), Some("rust"))
EntryLib == Entry(Some("lib.rs"), Some("pub fn f() {}"), Some("rust"))
EntryNoName == Entry(None, Some("x"), Some("text"))

\* A parsed JSON body: data.files is an array (Some) or not, data.output a
\* string (Some) or not.
Body(files, output) == [files |-> files, output |-> output]
Bodies ==
    { Body(Some(<<EntryMain, EntryLib>>), Some("generated")),
      Body(Some(<<EntryMain, EntryNoName, EntryLib>>), None),
      Body(None, None) }

\* What client.post(..).send().await and response.json().await can end in.
Reply(kind, body) == [kind |-> kind, body |-> body]
Replies ==
    { Reply(k, Body(None, None)) : k \in {"timeout", "connect_error", "http_error", "bad_json"} }
    \cup { Reply("ok", b) : b \in Bodies }

\* ------------------------------------------------------- main.rs (pure)
\* update_project_with_results, lines 264-296: the ProjectUpdate built from
\* the parsed reply.  Entries lacking a string name, content or language are
\* skipped; a missing data.files gives no files, a missing data.output "".
WellFormed(file) == IsSome(file.name) /\ IsSome(file.content) /\ IsSome(file.language)

\* Mutant: the files are collected by prepending, which reverses them.
ParseFiles_reversed(data) ==
    LET files_array == UnwrapOr(data.files, <<>>)
        kept == SelectSeq(files_array, WellFormed)
    IN  [i \in 1..Len(kept) |->
            GeneratedFile(Unwrap(kept[Len(kept) + 1 - i].name),
                          Unwrap(kept[Len(kept) + 1 - i].content),
                          Unwrap(kept[Len(kept) + 1 - i].language))]

\* Mutant: the loop ends at the first entry lacking a string key.
ParseFiles_stops_at_malformed(data) ==
    LET files_array == UnwrapOr(data.files, <<>>)
        bad == {i \in 1..Len(files_array) : ~WellFormed(files_array[i])}
        n == IF bad = {} THEN Len(files_array)
             ELSE (CHOOSE i \in bad : \A j \in bad : i <= j) - 1
    IN  [i \in 1..n |->
            GeneratedFile(Unwrap(files_array[i].name), Unwrap(files_array[i].content),
                          Unwrap(files_array[i].language))]

ParseFiles(data) ==
    LET files_array == UnwrapOr(data.files, <<>>)
        kept == SelectSeq(files_array, WellFormed)
    IN  [i \in 1..Len(kept) |->
            GeneratedFile(Unwrap(kept[i].name), Unwrap(kept[i].content),
                          Unwrap(kept[i].language))]

ParseOutput(data) == UnwrapOr(data.output, "")

\* Mutant: the Completed update carries the status alone.
ResultsUpdate_status_only(data) ==
    ProjectUpdate(Some(Completed), None, None, None)

ResultsUpdate(data) ==
    ProjectUpdate(Some(Completed), Some(ParseFiles(data)), Some(ParseOutput(data)), None)

\* Mutant: the Failed update does not carry the description.
FailedUpdate_no_output(error_message) ==
    ProjectUpdate(Some(Failed), None, None, None)

\* mark_project_failed, lines 315-320: the ProjectUpdate it sends.
FailedUpdate(error_message) ==
    ProjectUpdate(Some(Failed), None, Some(error_message), None)

\* generate_project_async, lines 234-254: the failure description per outcome.
FailureMessage(kind) ==
    CASE kind = "bad_json"   -> "Failed to parse AI core response"
      [] kind = "http_error" -> "AI core returned error"
      [] OTHER               -> "Failed to connect to AI core"

\* ------------------------------------------- health probes (pure parts)
\* What a GET to a service's health endpoint can end in: a response with a
\* success status (whose body parses to JSON with "success": true, parses
\* without it, or does not parse), a response with another status, a
\* connection error, or no answer within the timeout.
ProbeReply(kind, json) == [kind |-> kind, json |-> json]
ProbeReplies ==
    { ProbeReply("ok", j) : j \in {"success_true", "success_false", "bad_json"} }
    \cup { ProbeReply(k, "none") : k \in {"http_error", "connect_error", "timeout"} }

\* Mutant: a probe that could not be sent or timed out counts as healthy.
check_ai_core_health_err_healthy(reply) ==
    CASE reply.kind = "ok" ->
            IF reply.json = "success_true" THEN "healthy" ELSE "unhealthy"
      [] reply.kind = "http_error" -> "unhealthy (status: 500)"
      [] OTHER -> "healthy"

\* main.rs check_ai_core_health, lines 167-196: the string put in the
\* services map.  The request's own timeout (10 s) is an Err of send().
check_ai_core_health(reply) ==
    CASE reply.kind = "ok" ->
            IF reply.json = "success_true" THEN "healthy" ELSE "unhealthy"
      [] reply.kind = "http_error" -> "unhealthy (status: 500)"
      [] OTHER -> "unreachable"

\* health.rs ServiceHealth { status, error, .. }
ServiceHealth(status, error) == [status |-> status, error |-> error]

\* health.rs check_ai_core_health, lines 67-106: timeout(5 s, reqwest::get).
\* Only the response status is read.
health_rs_check_ai_core_health(reply) ==
    CASE reply.kind = "ok"            -> ServiceHealth("healthy", None)
      [] reply.kind = "http_error"    -> ServiceHealth("unhealthy", Some("HTTP 500"))
      [] reply.kind = "connect_error" -> ServiceHealth("unhealthy", Some("error sending request"))
      [] OTHER                        -> ServiceHealth("unhealthy", Some("Timeout"))

\* health.rs check_ollama_health, lines 108-147: the same against Ollama.
check_ollama_health(reply) ==
    CASE reply.kind = "ok"            -> ServiceHealth("healthy", None)
      [] reply.kind = "http_error"    -> ServiceHealth("unhealthy", Some("HTTP 500"))
      [] reply.kind = "connect_error" -> ServiceHealth("unhealthy", Some("error sending request"))
      [] OTHER                        -> ServiceHealth("unhealthy", Some("Timeout"))

\* health.rs health_check, lines 49-53.
overall_status(services) ==
    IF \A name \in DOMAIN services : services[name].status = "healthy"
    THEN "healthy" ELSE "degraded"

\* The partial payloads handed to update_project: the three the tasks of
\* main.rs send, one carrying metadata alone, and one with no field at all.
StoreUpdates ==
    { ProjectUpdate(Some(Generating), None, None, None),
      ResultsUpdate(Body(Some(<<EntryMain>>), Some("generated"))),
      FailedUpdate("AI core returned error"),
      ProjectUpdate(None, None, None, Some("metadata")),
      ProjectUpdate(None, None, None, None) }

NoUpdate == ProjectUpdate(None, None, None, None)
NoTask == [pc |-> "none", update |-> NoUpdate]

\* A worker thread that is not inside is_allowed.
Idle == [pc |-> "idle", client_id |-> "", now |-> 0, before |-> <<>>, full |-> FALSE]

Logged(id, events) == [log EXCEPT ![id] = @ \o events]

\* ------------------------------------------------------------- Init
Init ==
    /\ now = 0
    /\ requests = [c \in {} |-> <<>>]
    /\ admitted = 0
    /\ calls = 0
    /\ http = <<>>
    /\ store = [id \in {} |-> 0]
    /\ task = [id \in ProjectIds |-> NoTask]
    /\ spawns = [id \in ProjectIds |-> 0]
    /\ log = [id \in ProjectIds |-> <<>>]
    /\ observed = [id \in ProjectIds |-> <<>>]
    /\ answer = [id \in ProjectIds |-> None]
    /\ calllog = <<>>
    /\ healthlog = <<>>
    /\ lock = None
    /\ thread = [w \in Workers |-> Idle]
    /\ dbcall = None
    /\ dblast = None

\* ------------------------------------------------------------- actions
\* The clock advances.
Tick ==
    /\ now < MaxTime
    /\ now' = now + 1
    /\ UNCHANGED <<limiterVars, jobVars, observed, answer, healthVars, lockVars, dbVars>>

\* Mutant: the id of the previous invocation is handed out again.
NewId_reused == IF http = <<>> THEN Len(http) + 1 ELSE http[Len(http)].project_id

\* Uuid::new_v4(): an id no earlier invocation drew.
NewId == Len(http) + 1

\* generate_project, lines 59-76: a POST /generate arrives; the handler draws
\* the id, builds the record and awaits db.create_project.
generate_project(prompt, backend) ==
    /\ Len(http) < MaxReqs
    /\ LET project_id == NewId
           project_record ==
               ProjectRecord_new(project_id, prompt, UnwrapOr(backend, "ollama"), now)
       IN  http' = Append(http,
                [ prompt |-> prompt, backend |-> backend,
                  project_id |-> project_id, project_record |-> project_record,
                  pc |-> "creating" ])
    /\ UNCHANGED <<now, limiterVars, store, task, spawns, log, observed, answer, healthVars, lockVars, dbVars>>

\* Mutant: the handler awaits generate_project_async itself instead of
\* spawning it, and answers once the task has run to its end.
generate_project_created_inline(r, ok) ==
    /\ r \in DOMAIN http
    /\ http[r].pc = "creating"
    /\ LET id == http[r].project_id
       IN  /\ task[id].pc \in {"none", "done"}
           /\ IF task[id].pc = "done"
              THEN /\ http' = [http EXCEPT ![r].pc = "accepted"]
                   /\ UNCHANGED <<store, task, spawns, log>>
              ELSE IF ok
              THEN /\ store' = create_project(store, http[r].project_record)
                   /\ task' = [task EXCEPT ![id] = [pc |-> "spawned", update |-> NoUpdate]]
                   /\ log' = Logged(id, <<"create">>)
                   /\ UNCHANGED <<http, spawns>>
              ELSE /\ log' = Logged(id, <<"create_err">>)
                   /\ http' = [http EXCEPT ![r].pc = "error"]
                   /\ UNCHANGED <<store, task, spawns>>
    /\ UNCHANGED <<now, limiterVars, observed, answer, healthVars, lockVars, dbVars>>

\* Mutant: the task is spawned whatever create_project returned.
generate_project_created_spawns_anyway(r, ok) ==
    /\ r \in DOMAIN http
    /\ http[r].pc = "creating"
    /\ LET id == http[r].project_id
       IN  /\ task' = [task EXCEPT ![id] = [pc |-> "spawned", update |-> NoUpdate]]
           /\ spawns' = [spawns EXCEPT ![id] = @ + 1]
           /\ IF ok
              THEN /\ store' = create_project(store, http[r].project_record)
                   /\ log' = Logged(id, <<"create">>)
                   /\ http' = [http EXCEPT ![r].pc = "accepted"]
              ELSE /\ log' = Logged(id, <<"create_err">>)
                   /\ http' = [http EXCEPT ![r].pc = "error"]
                   /\ UNCHANGED store
    /\ UNCHANGED <<now, limiterVars, observed, answer, healthVars, lockVars, dbVars>>

\* generate_project, lines 76-102: db.create_project completes.  Ok: the task
\* is spawned and 202 Accepted carries the id.  Err: 500, nothing spawned.
generate_project_created(r, ok) ==
    /\ r \in DOMAIN http
    /\ http[r].pc = "creating"
    /\ LET id == http[r].project_id
       IN  IF ok
           THEN /\ store' = create_project(store, http[r].project_record)
                /\ task' = [task EXCEPT ![id] = [pc |-> "spawned", update |-> NoUpdate]]
                /\ spawns' = [spawns EXCEPT ![id] = @ + 1]
                /\ log' = Logged(id, <<"create">>)
                /\ http' = [http EXCEPT ![r].pc = "accepted"]
           ELSE /\ log' = Logged(id, <<"create_err">>)
                /\ http' = [http EXCEPT ![r].pc = "error"]
                /\ UNCHANGED <<store, task, spawns>>
    /\ UNCHANGED <<now, limiterVars, observed, answer, healthVars, lockVars, dbVars>>

\* Mutant: the `return` after a failed Generating update is missing.
generate_project_async_no_return(id, ok) ==
    /\ task[id].pc = "spawned"
    /\ LET update == ProjectUpdate(Some(Generating), None, None, None)
       IN  IF ok
           THEN /\ store' = update_project(store, id, update, now)
                /\ log' = Logged(id, <<"Generating", "call_start">>)
           ELSE /\ log' = Logged(id, <<"Generating_err", "call_start">>)
                /\ UNCHANGED store
    /\ task' = [task EXCEPT ![id].pc = "calling"]
    /\ UNCHANGED <<now, limiterVars, http, spawns, observed, answer, healthVars, lockVars, dbVars>>

\* generate_project_async, lines 204-232: the Generating update completes.
\* Err: the task returns.  Ok: it sends the request to the AI core.
generate_project_async(id, ok) ==
    /\ task[id].pc = "spawned"
    /\ LET update == ProjectUpdate(Some(Generating), None, None, None)
       IN  IF ok
           THEN /\ store' = update_project(store, id, update, now)
                /\ log' = Logged(id, <<"Generating", "call_start">>)
                /\ task' = [task EXCEPT ![id].pc = "calling"]
           ELSE /\ log' = Logged(id, <<"Generating_err">>)
                /\ task' = [task EXCEPT ![id].pc = "done"]
                /\ UNCHANGED store
    /\ UNCHANGED <<now, limiterVars, http, spawns, observed, answer, healthVars, lockVars, dbVars>>

\* Mutant: the check of response.status().is_success() is missing, so the
\* body of an error response is parsed like a success.
ai_core_reply_ignores_status(id, reply) ==
    /\ task[id].pc = "calling"
    /\ log' = Logged(id, <<"call_end">>)
    /\ task' = [task EXCEPT ![id] =
            IF reply.kind \in {"ok", "http_error"}
            THEN [pc |-> "completing", update |-> ResultsUpdate(reply.body)]
            ELSE [pc |-> "failing", update |-> FailedUpdate(FailureMessage(reply.kind))]]
    /\ answer' = [answer EXCEPT ![id] = Some(reply)]
    /\ UNCHANGED <<now, limiterVars, http, store, spawns, observed, healthVars, lockVars, dbVars>>

\* generate_project_async, lines 227-254, with the first halves of
\* update_project_with_results and mark_project_failed: the call to the AI
\* core ends in `reply`, and the task sends the update that answers it.
ai_core_reply(id, reply) ==
    /\ task[id].pc = "calling"
    /\ log' = Logged(id, <<"call_end">>)
    /\ task' = [task EXCEPT ![id] =
            IF reply.kind = "ok"
            THEN [pc |-> "completing", update |-> ResultsUpdate(reply.body)]
            ELSE [pc |-> "failing", update |-> FailedUpdate(FailureMessage(reply.kind))]]
    /\ answer' = [answer EXCEPT ![id] = Some(reply)]
    /\ UNCHANGED <<now, limiterVars, http, store, spawns, observed, healthVars, lockVars, dbVars>>

\* Mutant: mark_project_failed is reached on the Ok branch too.
update_project_with_results_falls_through(id, ok) ==
    /\ task[id].pc = "completing"
    /\ IF ok
       THEN /\ store' = update_project(store, id, task[id].update, now)
            /\ log' = Logged(id, <<"Completed">>)
       ELSE /\ log' = Logged(id, <<"Completed_err">>)
            /\ UNCHANGED store
    /\ task' = [task EXCEPT ![id] =
            [pc |-> "failing",
             update |-> FailedUpdate("Failed to update project with results")]]
    /\ UNCHANGED <<now, limiterVars, http, spawns, observed, answer, healthVars, lockVars, dbVars>>

\* Mutant: a refused Completed update is only logged; the task ends there.
update_project_with_results_gives_up(id, ok) ==
    /\ task[id].pc = "completing"
    /\ IF ok
       THEN /\ store' = update_project(store, id, task[id].update, now)
            /\ log' = Logged(id, <<"Completed">>)
       ELSE /\ log' = Logged(id, <<"Completed_err">>)
            /\ UNCHANGED store
    /\ task' = [task EXCEPT ![id] = [pc |-> "done", update |-> NoUpdate]]
    /\ UNCHANGED <<now, limiterVars, http, spawns, observed, answer, healthVars, lockVars, dbVars>>

\* update_project_with_results, lines 298-306: the Completed update
\* completes.  Err: mark_project_failed sends a Failed update.
update_project_with_results(id, ok) ==
    /\ task[id].pc = "completing"
    /\ IF ok
       THEN /\ store' = update_project(store, id, task[id].update, now)
            /\ log' = Logged(id, <<"Completed">>)
            /\ task' = [task EXCEPT ![id] = [pc |-> "done", update |-> NoUpdate]]
       ELSE /\ log' = Logged(id, <<"Completed_err">>)
            /\ task' = [task EXCEPT ![id] =
                    [pc |-> "failing",
                     update |-> FailedUpdate("Failed to update project with results")]]
            /\ UNCHANGED store
    /\ UNCHANGED <<now, limiterVars, http, spawns, observed, answer, healthVars, lockVars, dbVars>>

\* Mutant: a failed job is retried by spawning its task again.
mark_project_failed_respawn(id, ok) ==
    /\ task[id].pc = "failing"
    /\ IF ok
       THEN /\ store' = update_project(store, id, task[id].update, now)
            /\ log' = Logged(id, <<"Failed">>)
       ELSE /\ log' = Logged(id, <<"Failed_err">>)
            /\ UNCHANGED store
    /\ task' = [task EXCEPT ![id] = [pc |-> "spawned", update |-> NoUpdate]]
    /\ spawns' = [spawns EXCEPT ![id] = @ + 1]
    /\ UNCHANGED <<now, limiterVars, http, observed, answer, healthVars, lockVars, dbVars>>

\* Mutant: a refused Failed update is sent once more.
mark_project_failed_retries(id, ok) ==
    /\ task[id].pc = "failing"
    /\ IF ok
       THEN /\ store' = update_project(store, id, task[id].update, now)
            /\ log' = Logged(id, <<"Failed">>)
            /\ task' = [task EXCEPT ![id] = [pc |-> "done", update |-> NoUpdate]]
       ELSE /\ log' = Logged(id, <<"Failed_err">>)
            /\ task' = IF \E i \in 1..Len(log[id]) : log[id][i] = "Failed_err"
                       THEN [task EXCEPT ![id] = [pc |-> "done", update |-> NoUpdate]]
                       ELSE task
            /\ UNCHANGED store
    /\ UNCHANGED <<now, limiterVars, http, spawns, observed, answer, healthVars, lockVars, dbVars>>

\* mark_project_failed, lines 322-327: the Failed update completes.
mark_project_failed(id, ok) ==
    /\ task[id].pc = "failing"
    /\ IF ok
       THEN /\ store' = update_project(store, id, task[id].update, now)
            /\ log' = Logged(id, <<"Failed">>)
       ELSE /\ log' = Logged(id, <<"Failed_err">>)
            /\ UNCHANGED store
    /\ task' = [task EXCEPT ![id] = [pc |-> "done", update |-> NoUpdate]]
    /\ UNCHANGED <<now, limiterVars, http, spawns, observed, answer, healthVars, lockVars, dbVars>>

\* get_project, lines 133-147: a poll that finds the record; the history
\* keeps each status change it shows.
get_project(id) ==
    /\ id \in DOMAIN store
    /\ LET status == store[id].status
       IN  /\ IF observed[id] = <<>> THEN TRUE
              ELSE observed[id][Len(observed[id])] # status
           /\ observed' = [observed EXCEPT ![id] = Append(@, status)]
    /\ UNCHANGED <<now, limiterVars, jobVars, answer, healthVars, lockVars, dbVars>>

\* rate_limit_middleware, lines 124-140: is_allowed decides; on a denial the
\* 429 body reads get_remaining_requests.  No route of main.rs runs it.
rate_limit_middleware(client_id) ==
    /\ calls < MaxMiddlewareCalls
    /\ calls' = calls + 1
    /\ requests' = is_allowed_requests(requests, client_id, now)
    /\ admitted' = IF is_allowed(requests, client_id, now) THEN admitted + 1 ELSE admitted
    /\ UNCHANGED calllog
    /\ UNCHANGED <<now, jobVars, observed, answer, healthVars, lockVars, dbVars>>

\* RateLimiter::is_allowed, lines 39-57, called on the limiter directly.
RateLimiter_is_allowed(client_id) ==
    /\ Len(calllog) < MaxCalls
    /\ requests' = is_allowed_requests(requests, client_id, now)
    /\ calllog' = Append(calllog,
            [ op |-> "is_allowed", client |-> client_id, time |-> now,
              allowed |-> is_allowed(requests, client_id, now),
              before |-> requests, after |-> requests' ])
    /\ UNCHANGED <<now, admitted, calls, jobVars, observed, answer, healthVars, lockVars, dbVars>>

\* RateLimiter::get_remaining_requests, lines 59-73, called directly.
RateLimiter_get_remaining_requests(client_id) ==
    /\ Len(calllog) < MaxCalls
    /\ requests' = get_remaining_requests_map(requests, client_id, now)
    /\ calllog' = Append(calllog,
            [ op |-> "remaining", client |-> client_id, time |-> now,
              count |-> get_remaining_requests(requests, client_id, now),
              before |-> requests, after |-> requests' ])
    /\ UNCHANGED <<now, admitted, calls, jobVars, observed, answer, healthVars, lockVars, dbVars>>

\* is_allowed step by step, as the worker threads of the server run it
\* against the one shared RateLimiter.
\* Line 39: worker w enters is_allowed(client_id) and reaches lock().
is_allowed_call(w, client_id) ==
    /\ thread[w].pc = "idle"
    /\ Len(calllog) + Cardinality({v \in Workers : thread[v].pc # "idle"}) < MaxLockCalls
    /\ thread' = [thread EXCEPT ![w] = [Idle EXCEPT !.pc = "lock", !.client_id = client_id]]
    /\ UNCHANGED <<now, limiterVars, jobVars, observed, answer, healthVars, lock, dbVars>>

\* Lines 40-41: lock() returns the guard, Instant::now() is read.
is_allowed_lock(w) ==
    /\ thread[w].pc = "lock"
    /\ Mutex_lock(lock, w)
    /\ lock' = Some(w)
    /\ thread' = [thread EXCEPT ![w] =
            [@ EXCEPT !.pc = "retain", !.now = now, !.before = requests]]
    /\ UNCHANGED <<now, limiterVars, jobVars, observed, answer, healthVars, dbVars>>

\* Lines 44-46: the client's window, if it has one, is pruned in place.
is_allowed_retain(w) ==
    /\ thread[w].pc = "retain"
    /\ LET client_id == thread[w].client_id
       IN  requests' = IF client_id \in DOMAIN requests
                       THEN [requests EXCEPT ![client_id] = Retain(@, thread[w].now)]
                       ELSE requests
    /\ thread' = [thread EXCEPT ![w].pc = "check"]
    /\ UNCHANGED <<now, admitted, calls, calllog, jobVars, observed, answer,
                   healthVars, lock, dbVars>>

\* Lines 49-51: the entry is fetched (or inserted empty) and its length
\* compared with max_requests.
is_allowed_check(w) ==
    /\ thread[w].pc = "check"
    /\ requests' = OrInsertEmpty(requests, thread[w].client_id)
    /\ thread' = [thread EXCEPT ![w] =
            [@ EXCEPT !.pc = "return",
                      !.full = Len(requests'[thread[w].client_id]) >= MaxRequests]]
    /\ UNCHANGED <<now, admitted, calls, calllog, jobVars, observed, answer,
                   healthVars, lock, dbVars>>

\* Lines 52-57: false, or push(now) and true; the guard is dropped on return.
is_allowed_return(w) ==
    /\ thread[w].pc = "return"
    /\ LET client_id == thread[w].client_id
       IN  /\ requests' = IF thread[w].full THEN requests
                          ELSE [requests EXCEPT ![client_id] = Append(@, thread[w].now)]
           /\ calllog' = Append(calllog,
                   [ op |-> "is_allowed", client |-> client_id, time |-> thread[w].now,
                     allowed |-> ~thread[w].full,
                     before |-> thread[w].before, after |-> requests' ])
    /\ lock' = None
    /\ thread' = [thread EXCEPT ![w] = Idle]
    /\ UNCHANGED <<now, admitted, calls, jobVars, observed, answer, healthVars, dbVars>>

\* main.rs health, lines 38-57: the handler routed at GET /health
\* (main.rs:355).  It probes the AI core and answers 200 with status
\* "healthy" and the services map.
health(ai_core) ==
    /\ Len(healthlog) < MaxHealthCalls
    /\ healthlog' = Append(healthlog,
            [ handler  |-> "health",
              code     |-> 200,
              status   |-> "healthy",
              services |-> [name \in {"backend", "ai_core"} |->
                              IF name = "backend" THEN "healthy"
                              ELSE check_ai_core_health(ai_core)],
              probes   |-> [name \in {"ai_core"} |-> ai_core] ])
    /\ UNCHANGED <<now, limiterVars, jobVars, observed, answer, lockVars, dbVars>>

\* health.rs health_check, lines 35-65: probes the AI core, then Ollama, and
\* answers 200 with the overall status and the per-service map.  The handler
\* keeps nothing between its two probes that another step could see, so both
\* outcomes are taken in one step.  (health.rs is not a module of the binary;
\* no route of main.rs serves it.)
health_check(ai_core, ollama) ==
    /\ Len(healthlog) < MaxHealthCalls
    /\ LET services == [name \in {"ai_core", "ollama"} |->
                           IF name = "ai_core"
                           THEN health_rs_check_ai_core_health(ai_core)
                           ELSE check_ollama_health(ollama)]
       IN  healthlog' = Append(healthlog,
               [ handler  |-> "health_check",
                 code     |-> 200,
                 status   |-> overall_status(services),
                 services |-> services,
                 probes   |-> [name \in {"ai_core", "ollama"} |->
                                 IF name = "ai_core" THEN ai_core ELSE ollama] ])
    /\ UNCHANGED <<now, limiterVars, jobVars, observed, answer, lockVars, dbVars>>

\* DatabaseService::create_project, lines 26-39, called on the store
\* directly with a record built by ProjectRecord::new.
DatabaseService_create_project(project_id, ok) ==
    /\ dbcall = None
    /\ StoreCalls(dblast) < MaxStoreCalls
    /\ project_id \notin DOMAIN store
    /\ store' = IF ok
                THEN create_project(store,
                         ProjectRecord_new(project_id, PromptReact, "ollama", now))
                ELSE store
    /\ dblast' = Some([ op |-> "create", project_id |-> project_id,
                        update |-> NoUpdate, time |-> now,
                        result |-> IF ok THEN "Ok" ELSE "Err",
                        before |-> store, after |-> store',
                        seq |-> StoreCalls(dblast) + 1 ])
    /\ UNCHANGED <<now, limiterVars, http, task, spawns, log, observed, answer,
                   healthVars, lockVars, dbcall>>

\* DatabaseService::update_project, lines 62-88: the $set document is built,
\* updated_at taken from Utc::now(), and update_one is awaited.
DatabaseService_update_project(project_id, update) ==
    /\ dbcall = None
    /\ StoreCalls(dblast) < MaxStoreCalls
    /\ dbcall' = Some([project_id |-> project_id, update |-> update, updated_at |-> now])
    /\ UNCHANGED <<now, limiterVars, jobVars, observed, answer, healthVars, lockVars, dblast>>

\* DatabaseService::update_project, lines 88-101: update_one completes.
\* Ok(result): Ok(()) is returned whether or not a document matched
\* (modified_count only selects the log line).  Err(e): Err is returned.
DatabaseService_update_project_returns(ok) ==
    /\ dbcall # None
    /\ LET call == Unwrap(dbcall)
       IN  /\ store' = IF ok
                       THEN update_project(store, call.project_id, call.update,
                                           call.updated_at)
                       ELSE store
           /\ dblast' = Some([ op |-> "update", project_id |-> call.project_id,
                               update |-> call.update, time |-> call.updated_at,
                               result |-> IF ok THEN "Ok" ELSE "Err",
                               before |-> store, after |-> store',
                               seq |-> StoreCalls(dblast) + 1 ])
    /\ dbcall' = None
    /\ UNCHANGED <<now, limiterVars, http, task, spawns, log, observed, answer,
                   healthVars, lockVars>>

\* ------------------------------------------------------- specifications
\* The served application: the routes of main.rs and the tasks they spawn.
\* No step of the lifecycle reads a timestamp, so the clock stands still
\* here; it runs where the limiter's windows depend on it.
Next ==
    \/ \E req \in GenerateRequests : generate_project(req.prompt, req.backend)
    \/ \E r \in 1..MaxReqs, ok \in BOOLEAN : generate_project_created(r, ok)
    \/ \E id \in ProjectIds, ok \in BOOLEAN : generate_project_async(id, ok)
    \/ \E id \in ProjectIds, reply \in Replies : ai_core_reply(id, reply)
    \/ \E id \in ProjectIds, ok \in BOOLEAN : update_project_with_results(id, ok)
    \/ \E id \in ProjectIds, ok \in BOOLEAN : mark_project_failed(id, ok)

Spec == Init /\ [][Next]_vars

\* The served application under fair scheduling: the runtime goes on polling
\* every handler and every spawned task, each store call returns (Ok or Err),
\* and each request to the AI core ends in a response, an error or its
\* timeout.  Which outcome a step has stays open.
Fairness ==
    /\ \A r \in 1..MaxReqs : WF_vars(\E ok \in BOOLEAN : generate_project_created(r, ok))
    /\ \A id \in ProjectIds :
          /\ WF_vars(\E ok \in BOOLEAN : generate_project_async(id, ok))
          /\ WF_vars(\E reply \in Replies : ai_core_reply(id, reply))
          /\ WF_vars(\E ok \in BOOLEAN : update_project_with_results(id, ok))
          /\ WF_vars(\E ok \in BOOLEAN : mark_project_failed(id, ok))

SpecFair == Init /\ [][Next]_vars /\ Fairness

\* The same application with a client polling GET /projects/{id}: the polls
\* read the store and write only the history of what they have shown.
NextPoll ==
    \/ \E req \in GenerateRequests : generate_project(req.prompt, req.backend)
    \/ \E r \in 1..MaxReqs, ok \in BOOLEAN : generate_project_created(r, ok)
    \/ \E id \in ProjectIds, ok \in BOOLEAN : generate_project_async(id, ok)
    \/ \E id \in ProjectIds, reply \in Replies : ai_core_reply(id, reply)
    \/ \E id \in ProjectIds, ok \in BOOLEAN : update_project_with_results(id, ok)
    \/ \E id \in ProjectIds, ok \in BOOLEAN : mark_project_failed(id, ok)
    \/ \E id \in ProjectIds : get_project(id)

SpecPoll == Init /\ [][NextPoll]_vars

\* The submit path of the application next to the rate limiter of
\* validation.rs, with the clock its windows depend on.
NextGate ==
    \/ Tick
    \/ \E c \in Clients : rate_limit_middleware(c)
    \/ \E req \in GenerateRequests : generate_project(req.prompt, req.backend)
    \/ \E r \in 1..MaxReqs, ok \in BOOLEAN : generate_project_created(r, ok)

SpecGate == Init /\ [][NextGate]_vars

\* The RateLimiter on its own: any clients calling is_allowed and
\* get_remaining_requests in any order while the clock advances.
NextLimiter ==
    \/ Tick
    \/ \E c \in Clients : RateLimiter_is_allowed(c)
    \/ \E c \in Clients : RateLimiter_get_remaining_requests(c)

SpecLimiter == Init /\ [][NextLimiter]_vars

\* The RateLimiter shared by the worker threads: is_allowed calls interleave
\* statement by statement, the mutex alone orders them.
NextLock ==
    \/ Tick
    \/ \E w \in Workers, c \in Clients : is_allowed_call(w, c)
    \/ \E w \in Workers : is_allowed_lock(w)
    \/ \E w \in Workers : is_allowed_retain(w)
    \/ \E w \in Workers : is_allowed_check(w)
    \/ \E w \in Workers : is_allowed_return(w)

SpecLock == Init /\ [][NextLock]_vars

\* The health handlers, answering any number of requests with any probe
\* outcomes.
NextHealth ==
    \/ \E p \in ProbeReplies : health(p)
    \/ \E p, q \in ProbeReplies : health_check(p, q)

SpecHealth == Init /\ [][NextHealth]_vars

\* The DatabaseService on its own: records are created and updated with any
\* of the payloads, for ids with and without a record, while the clock runs.
NextStore ==
    \/ Tick
    \/ \E id \in ProjectIds, ok \in BOOLEAN : DatabaseService_create_project(id, ok)
    \/ \E id \in ProjectIds, u \in StoreUpdates : DatabaseService_update_project(id, u)
    \/ \E ok \in BOOLEAN : DatabaseService_update_project_returns(ok)

SpecStore == Init /\ [][NextStore]_vars

\* ------------------------------------------------------------- claims
IsPrefix(s, t) == Len(s) <= Len(t) /\ \A i \in 1..Len(s) : s[i] = t[i]
Occurs(e, l) == \E i \in 1..Len(l) : l[i] = e
Before(a, b, l) == \A i \in 1..Len(l) : l[i] = b => \E j \in 1..(i - 1) : l[j] = a
IdOf(r) == http[r].project_id

\* C1: the statuses that polls of one job show, in order, are a prefix of
\* Pending, Generating, then one of Completed or Failed.
C1_StatusSequencePrefix ==
    \A id \in ProjectIds :
        \E last \in Terminal : IsPrefix(observed[id], <<Pending, Generating, last>>)

\* C2: once a job's stored status is Completed or Failed, no step changes its
\* status, files or output (the record stays in the store as it is).
C2_TerminalFrozen ==
    [][\A id \in DOMAIN store :
          store[id].status \in Terminal =>
              /\ id \in DOMAIN store'
              /\ store'[id].status = store[id].status
              /\ store'[id].files = store[id].files
              /\ store'[id].output = store[id].output]_vars

\* A job ended Failed after its Completed update was refused, another one
\* ended Completed, and both tasks have run to their end.
C2_Witness ==
    \E id, other \in DOMAIN store :
        /\ store[id].status = Failed
        /\ Occurs("Completed_err", log[id])
        /\ store[other].status = Completed
        /\ task[id].pc = "done" /\ task[other].pc = "done"

\* C3: a record that submit has just persisted (no update applied yet) has
\* status Pending.
C3_InitialPending ==
    \A id \in DOMAIN store : log[id] = <<"create">> => store[id].status = Pending

\* C4: a submit whose request fails validation creates no record and
\* schedules no task.
C4_InvalidRejected ==
    \A r \in DOMAIN http :
        ~validate_generate_request(http[r].prompt, http[r].backend) =>
            /\ IdOf(r) \notin DOMAIN store
            /\ spawns[IdOf(r)] = 0
            /\ http[r].pc # "accepted"

\* C5: at the step where submit answers Accepted, the id it returns differs
\* from the id of every other invocation, and the store holds the job with
\* status Pending or Generating.
C5_UniqueAndRetrievable ==
    [][\A r \in DOMAIN http :
          (http[r].pc = "creating" /\ http'[r].pc = "accepted") =>
              /\ \A q \in DOMAIN http : q # r => IdOf(q) # IdOf(r)
              /\ IdOf(r) \in DOMAIN store'
              /\ store'[IdOf(r)].project_id = IdOf(r)
              /\ store'[IdOf(r)].status \in {Pending, Generating}]_vars

\* Two submits were accepted, the first job's task meanwhile at its end.
C5_Witness ==
    /\ Len(http) = 2
    /\ http[1].pc = "accepted" /\ http[2].pc = "accepted"
    /\ task[IdOf(1)].pc = "done"
    /\ task[IdOf(2)].pc = "spawned"

\* C6: no project id ever has more than one task spawned for it; an accepted
\* submit has spawned exactly one, after its create succeeded, and a submit
\* whose create failed none.
C6_OneTaskPerJob ==
    /\ \A id \in ProjectIds :
          /\ spawns[id] <= 1
          /\ spawns[id] = 1 => (id \in DOMAIN store /\ log[id][1] = "create")
    /\ \A r \in DOMAIN http :
          /\ http[r].pc = "accepted" => spawns[IdOf(r)] = 1
          /\ http[r].pc \in {"creating", "error"} => spawns[IdOf(r)] = 0

\* A job went through its failure handling (a refused Completed update, then
\* mark_project_failed) to the end of its task.
C6_Witness ==
    \E id \in ProjectIds :
        /\ spawns[id] = 1
        /\ Occurs("Completed_err", log[id])
        /\ Occurs("Failed", log[id])
        /\ task[id].pc = "done"

\* C7: a submit that is waiting for its create can always go on to answer,
\* whatever state the external calls of the jobs are in, and no call for its
\* own job has started before it answers.
C7_SubmitNeverWaits ==
    \A r \in DOMAIN http :
        http[r].pc = "creating" =>
            /\ ENABLED generate_project_created(r, TRUE)
            /\ task[IdOf(r)].pc = "none"
            /\ ~Occurs("call_start", log[IdOf(r)])

\* A submit is answered while the call of an earlier job is in flight, and
\* its own job's call has not started.
C7_Witness ==
    /\ Len(http) = 2
    /\ task[IdOf(1)].pc = "calling"
    /\ http[2].pc = "accepted"
    /\ task[IdOf(2)].pc = "spawned"
    /\ ~Occurs("call_start", log[IdOf(2)])

\* C8: job records are created only for requests the Rate Limiter admitted:
\* there are never more records than admissions.
C8_CreationGated == Cardinality(DOMAIN store) <= admitted

\* C9: when the Generating update fails, the task ends there (no call to the
\* Generation Service, no further store update) and the job is Pending.
C9_AbortStaysPending ==
    \A id \in ProjectIds :
        Occurs("Generating_err", log[id]) =>
            /\ log[id] = <<"create", "Generating_err">>
            /\ task[id].pc = "done"
            /\ store[id].status = Pending

\* C10: within one job, the create precedes the Generating update, the
\* Generating update is persisted before the external call starts, and a
\* terminal update is sent only after the external call has ended.
C10_StepsOrdered ==
    \A id \in ProjectIds :
        LET l == log[id]
        IN  /\ Before("create", "Generating", l)
            /\ Before("create", "Generating_err", l)
            /\ Before("Generating", "call_start", l)
            /\ Before("call_start", "call_end", l)
            /\ \A e \in {"Completed", "Completed_err", "Failed", "Failed_err"} :
                  Before("call_end", e, l)
            /\ (id \in DOMAIN store /\ store[id].status \in Terminal) =>
                  Occurs("call_end", l)
            /\ task[id].pc = "calling" =>
                  (Occurs("Generating", l) /\ ~Occurs("call_end", l))

\* A job ran create, Generating, the call and the Completed update in turn.
C10_Witness ==
    \E id \in ProjectIds :
        log[id] = <<"create", "Generating", "call_start", "call_end", "Completed">>

AnswerKind(id) == IF IsSome(answer[id]) THEN Unwrap(answer[id]).kind ELSE "none"
FailureKinds == {"timeout", "connect_error", "http_error", "bad_json"}
Count(e, l) == Cardinality({i \in 1..Len(l) : l[i] = e})
\* The record as generate_project built it for this id.
Created(id) == http[CHOOSE r \in DOMAIN http : IdOf(r) = id].project_record

\* C11: a stored job with status Completed carries exactly the files and the
\* output extracted from its response, and a job still Generating carries no
\* result files and no output: status and results change in one update.
C11_CompletedWithResults ==
    \A id \in DOMAIN store :
        /\ store[id].status = Completed =>
              /\ AnswerKind(id) = "ok"
              /\ store[id].files = ParseFiles(Unwrap(answer[id]).body)
              /\ store[id].output = ParseOutput(Unwrap(answer[id]).body)
        /\ store[id].status = Generating =>
              (store[id].files = <<>> /\ store[id].output = "")

\* A job is Completed with the two files and the output of its response.
C11_Witness ==
    \E id \in DOMAIN store :
        /\ store[id].status = Completed
        /\ Len(store[id].files) = 2
        /\ store[id].output = "generated"

C13_FailedUpdateFrame ==
    \A id \in ProjectIds :
        /\ Count("Failed", log[id]) + Count("Failed_err", log[id]) <= 1
        /\ task[id].pc = "failing" =>
              /\ task[id].update.status = Some(Failed)
              /\ task[id].update.files = None
              /\ IsSome(task[id].update.output)
              /\ Unwrap(task[id].update.output) # ""
        /\ (task[id].pc = "done" /\
            (AnswerKind(id) \in FailureKinds \/ Occurs("Completed_err", log[id]))) =>
              Count("Failed", log[id]) + Count("Failed_err", log[id]) = 1
        /\ Occurs("Failed", log[id]) =>
              /\ store[id].status = Failed
              /\ store[id].output # ""
              /\ store[id].files = <<>>
              /\ store[id].prompt = Created(id).prompt
              /\ store[id].backend = Created(id).backend
              /\ store[id].project_id = id
              /\ store[id].created_at = Created(id).created_at

\* A job failed because the service answered with an error status, another
\* because its Completed update was refused.
C13_Witness ==
    \E id, other \in DOMAIN store :
        /\ AnswerKind(id) = "http_error" /\ Occurs("Failed", log[id])
        /\ Occurs("Completed_err", log[other]) /\ Occurs("Failed", log[other])

\* C14: a job whose external call timed out and that is Failed has a
\* non-empty output that differs from the description recorded when the
\* service cannot be reached.
C14_TimeoutDescribed ==
    \A id \in DOMAIN store :
        (AnswerKind(id) = "timeout" /\ store[id].status = Failed) =>
            /\ store[id].output # ""
            /\ store[id].output # FailureMessage("connect_error")

\* C15: when the response is a success whose data.files entries f1..fn all
\* have name, content and language, the Completed update carries exactly
\* these n files in this order, and so does the job once it is Completed.
AllNamed(entries) ==
    \A i \in 1..Len(entries) :
        IsSome(entries[i].name) /\ IsSome(entries[i].content) /\ IsSome(entries[i].language)
SameFiles(files, entries) ==
    /\ Len(files) = Len(entries)
    /\ \A i \in 1..Len(entries) :
          /\ files[i].name = Unwrap(entries[i].name)
          /\ files[i].content = Unwrap(entries[i].content)
          /\ files[i].language = Unwrap(entries[i].language)
C15_FilesPreserved ==
    \A id \in DOMAIN store :
        (/\ AnswerKind(id) = "ok"
         /\ IsSome(Unwrap(answer[id]).body.files)
         /\ AllNamed(Unwrap(Unwrap(answer[id]).body.files))) =>
            LET entries == Unwrap(Unwrap(answer[id]).body.files)
            IN  /\ task[id].pc = "completing" =>
                      /\ task[id].update.status = Some(Completed)
                      /\ IsSome(task[id].update.files)
                      /\ SameFiles(Unwrap(task[id].update.files), entries)
                /\ Occurs("Completed", log[id]) =>
                      /\ store[id].status = Completed
                      /\ SameFiles(store[id].files, entries)

\* A job is Completed from a response that listed main.rs before lib.rs.
C15_Witness ==
    \E id \in DOMAIN store :
        /\ store[id].status = Completed
        /\ AnswerKind(id) = "ok"
        /\ Unwrap(answer[id]).body.files = Some(<<EntryMain, EntryLib>>)
        /\ store[id].files # <<>>

\* The is_allowed calls of one client, in order.
AdmitCalls(c) == SelectSeq(calllog, LAMBDA e : e.op = "is_allowed" /\ e.client = c)
\* The client's window in a map, empty when the map has no entry for it.
WindowIn(reqs, c) == IF c \in DOMAIN reqs THEN reqs[c] ELSE <<>>
\* How many of the first k-1 logged calls are admissions of c still inside
\* the window at time t.
AdmittedInWindow(c, k, t) ==
    Cardinality({j \in 1..(k - 1) :
        /\ calllog[j].op = "is_allowed" /\ calllog[j].client = c
        /\ calllog[j].allowed
        /\ t - calllog[j].time < WindowDuration})

\* C16: from an empty window, the first MaxRequests is_allowed calls of a
\* client are allowed, the next one is denied when it falls inside the window
\* opened by the first, and a call made when WindowDuration has passed since
\* every earlier admission is allowed again.
C16_WindowLimit ==
    \A c \in Clients :
        LET A == AdmitCalls(c)
        IN  /\ \A k \in 1..Len(A) : k <= MaxRequests => A[k].allowed
            /\ (Len(A) > MaxRequests /\
                A[MaxRequests + 1].time - A[1].time < WindowDuration) =>
                  ~A[MaxRequests + 1].allowed
            /\ \A k \in 1..Len(A) :
                  (\A j \in 1..(k - 1) :
                      A[j].allowed => A[k].time - A[j].time >= WindowDuration) =>
                      A[k].allowed

\* A client was allowed MaxRequests times, denied the next time, and allowed
\* again once the window had passed.
C16_Witness ==
    \E c \in Clients :
        LET A == AdmitCalls(c)
        IN  /\ Len(A) >= MaxRequests + 2
            /\ \A k \in 1..MaxRequests : A[k].allowed
            /\ ~A[MaxRequests + 1].allowed
            /\ A[MaxRequests + 2].allowed
            /\ A[MaxRequests + 2].time - A[MaxRequests].time >= WindowDuration

\* C17 as stated: is_allowed at time t drops from the client's window exactly
\* the timestamps of age strictly greater than WindowDuration; it answers
\* allowed and records t iff fewer than MaxRequests are kept, and otherwise
\* records nothing.
C17_PruneStrictlyOlder ==
    \A k \in 1..Len(calllog) :
        LET e == calllog[k]
            kept == SelectSeq(WindowIn(e.before, e.client),
                              LAMBDA x : ~(e.time - x > WindowDuration))
        IN  e.op = "is_allowed" =>
                /\ e.allowed = (Len(kept) < MaxRequests)
                /\ e.after[e.client] = IF e.allowed THEN Append(kept, e.time) ELSE kept

\* C17 (amended): is_allowed at time t drops from the client's window exactly
\* the timestamps of age WindowDuration or more and keeps the others in
\* order; it answers allowed and records t iff fewer than MaxRequests are
\* kept, and otherwise answers denied and records nothing.
C17_PruneAtWindow ==
    \A k \in 1..Len(calllog) :
        LET e == calllog[k]
            kept == SelectSeq(WindowIn(e.before, e.client),
                              LAMBDA x : ~(e.time - x >= WindowDuration))
        IN  e.op = "is_allowed" =>
                /\ e.allowed = (Len(kept) < MaxRequests)
                /\ e.after[e.client] = IF e.allowed THEN Append(kept, e.time) ELSE kept

\* An is_allowed call found a timestamp of age exactly WindowDuration in the
\* window, and another call was denied.
C17_Witness ==
    /\ \E k \in 1..Len(calllog) :
          /\ calllog[k].op = "is_allowed"
          /\ \E i \in 1..Len(WindowIn(calllog[k].before, calllog[k].client)) :
                calllog[k].time - calllog[k].before[calllog[k].client][i] = WindowDuration
    /\ \E k \in 1..Len(calllog) : calllog[k].op = "is_allowed" /\ ~calllog[k].allowed

\* C18: get_remaining_requests answers MaxRequests minus the number of the
\* client's admissions still inside the window, never less than 0, and
\* MaxRequests for a client that was never admitted; denied calls do not count.
C18_Remaining ==
    /\ \A k \in 1..Len(calllog) :
          calllog[k].op = "remaining" =>
              /\ calllog[k].count =
                    MaxRequests - AdmittedInWindow(calllog[k].client, k, calllog[k].time)
              /\ calllog[k].count >= 0
    /\ \A c \in Clients :
          /\ get_remaining_requests(requests, c, now) =
                MaxRequests - AdmittedInWindow(c, Len(calllog) + 1, now)
          /\ AdmitCalls(c) = <<>> => get_remaining_requests(requests, c, now) = MaxRequests

\* After a denied call get_remaining_requests answered 0, and it answered
\* more again once an admission had left the window.
C18_Witness ==
    \E c \in Clients : \E j, k, m \in 1..Len(calllog) :
        /\ j < k /\ k < m
        /\ calllog[j].op = "is_allowed" /\ calllog[j].client = c /\ ~calllog[j].allowed
        /\ calllog[k].op = "remaining" /\ calllog[k].client = c /\ calllog[k].count = 0
        /\ calllog[m].op = "remaining" /\ calllog[m].client = c /\ calllog[m].count > 0

\* C19: get_remaining_requests leaves the whole map as it was (no window
\* pruned, no entry added), so every is_allowed answers the same after it as
\* before it.
C19_RemainingReadOnly ==
    \A k \in 1..Len(calllog) :
        LET e == calllog[k]
        IN  e.op = "remaining" =>
                /\ DOMAIN e.after = DOMAIN e.before
                /\ \A c \in DOMAIN e.before : e.after[c] = e.before[c]
                /\ \A c \in Clients :
                      /\ is_allowed(e.after, c, e.time) = is_allowed(e.before, c, e.time)
                      /\ is_allowed_requests(e.after, c, e.time) =
                            is_allowed_requests(e.before, c, e.time)

\* get_remaining_requests was called for a client without an entry and for
\* one whose window held an expired timestamp, and is_allowed came after.
C19_Witness ==
    \E i, j, k \in 1..Len(calllog) :
        /\ calllog[i].op = "remaining"
        /\ calllog[i].client \notin DOMAIN calllog[i].before
        /\ calllog[j].op = "remaining"
        /\ \E n \in 1..Len(WindowIn(calllog[j].before, calllog[j].client)) :
              calllog[j].time - calllog[j].before[calllog[j].client][n] >= WindowDuration
        /\ j < k
        /\ calllog[k].op = "is_allowed" /\ calllog[k].client = calllog[j].client

\* C20: a call for one client leaves every other client's window as it was
\* (present or absent alike) and changes no answer that is_allowed or
\* get_remaining_requests gives another client.
C20_ClientIsolation ==
    \A k \in 1..Len(calllog) :
        LET e == calllog[k]
        IN  \A c \in Clients \ {e.client} :
                /\ (c \in DOMAIN e.after) = (c \in DOMAIN e.before)
                /\ WindowIn(e.after, c) = WindowIn(e.before, c)
                /\ is_allowed(e.after, c, e.time) = is_allowed(e.before, c, e.time)
                /\ get_remaining_requests(e.after, c, e.time) =
                      get_remaining_requests(e.before, c, e.time)

\* One client is denied while another, whose window holds an expired
\* timestamp, is untouched by that call and allowed afterwards.
C20_Witness ==
    \E j, k \in 1..Len(calllog) :
        /\ j < k
        /\ calllog[j].op = "is_allowed" /\ ~calllog[j].allowed
        /\ calllog[k].op = "is_allowed" /\ calllog[k].allowed
        /\ calllog[k].client # calllog[j].client
        /\ calllog[k].time = calllog[j].time
        /\ \E n \in 1..Len(WindowIn(calllog[j].before, calllog[k].client)) :
              calllog[j].time - calllog[j].before[calllog[k].client][n] >= WindowDuration

\* C21: however the is_allowed calls of the worker threads interleave, at
\* most one thread is between lock() and its return, each call has the effect
\* of the whole prune-check-record step run at once, no client's window ever
\* holds more than MaxRequests timestamps, and no more than MaxRequests calls
\* of one client are allowed within any window.
C21_AtomicAdmit ==
    /\ Cardinality({w \in Workers : thread[w].pc \in {"retain", "check", "return"}}) <= 1
    /\ \A w \in Workers :
          thread[w].pc \in {"retain", "check", "return"} => lock = Some(w)
    /\ \A c \in DOMAIN requests : Len(requests[c]) <= MaxRequests
    /\ \A k \in 1..Len(calllog) :
          LET e == calllog[k]
          IN  /\ e.allowed = is_allowed(e.before, e.client, e.time)
              /\ e.after = is_allowed_requests(e.before, e.client, e.time)
              /\ Cardinality({j \in 1..Len(calllog) :
                      /\ calllog[j].client = e.client /\ calllog[j].allowed
                      /\ calllog[j].time <= e.time
                      /\ e.time - calllog[j].time < WindowDuration}) <= MaxRequests

\* A thread holding the mutex is about to be denied, its client's window
\* being full, while the other thread waits at lock() for the same client.
C21_Witness ==
    \E w, v \in Workers :
        /\ thread[w].pc = "return" /\ thread[w].full
        /\ thread[v].pc = "lock"
        /\ thread[v].client_id = thread[w].client_id
        /\ Len(requests[thread[w].client_id]) = MaxRequests

\* The status a health response shows for a service, and its error
\* description (the services map of main.rs health holds plain strings).
EntryStatus(e, name) ==
    IF e.handler = "health" THEN e.services[name] ELSE e.services[name].status
EntryError(e, name) ==
    IF e.handler = "health" THEN None ELSE e.services[name].error
ProbeFailed(e, name) == e.probes[name].kind # "ok"

\* C22: every health response reports healthy iff each probed service's
\* entry is healthy, and degraded otherwise; when the probe of the AI core
\* failed, the response is degraded and the AI core's entry is unhealthy with
\* an error description, while the entry of a service whose probe succeeded
\* is healthy.
C22_OverallIffAllHealthy ==
    \A k \in 1..Len(healthlog) :
        LET e == healthlog[k]
        IN  /\ e.status = IF \A name \in DOMAIN e.probes : EntryStatus(e, name) = "healthy"
                          THEN "healthy" ELSE "degraded"
            /\ ProbeFailed(e, "ai_core") =>
                  /\ e.status = "degraded"
                  /\ EntryStatus(e, "ai_core") = "unhealthy"
                  /\ EntryError(e, "ai_core") # None
                  /\ \A name \in DOMAIN e.probes :
                        (e.handler = "health_check" /\ ~ProbeFailed(e, name)) =>
                            EntryStatus(e, name) = "healthy"

\* C23: every health request is answered, with a success status, whatever
\* its probes end in (a handler can always take its step), and a probe that
\* failed shows in that service's entry: the entry is not healthy, and in the
\* per-service records of health_check it is unhealthy with a description.
C23_HealthAlwaysAnswers ==
    /\ Len(healthlog) < MaxHealthCalls =>
          \A p \in ProbeReplies :
              /\ ENABLED health(p)
              /\ \A q \in ProbeReplies : ENABLED health_check(p, q)
    /\ \A k \in 1..Len(healthlog) :
          LET e == healthlog[k]
          IN  /\ e.code >= 200 /\ e.code < 300
              /\ \A name \in DOMAIN e.probes :
                    ProbeFailed(e, name) =>
                        /\ EntryStatus(e, name) # "healthy"
                        /\ e.handler = "health_check" =>
                              /\ EntryStatus(e, name) = "unhealthy"
                              /\ EntryError(e, name) # None

\* GET /health was answered when its probe had timed out, and health_check
\* when one probe could not connect and the other got an error status.
C23_Witness ==
    \E i, j \in 1..Len(healthlog) :
        /\ healthlog[i].handler = "health"
        /\ healthlog[i].probes["ai_core"].kind = "timeout"
        /\ healthlog[j].handler = "health_check"
        /\ healthlog[j].probes["ai_core"].kind = "connect_error"
        /\ healthlog[j].probes["ollama"].kind = "http_error"

\* C24: an update that the store applied to a record changed status, files,
\* output and metadata exactly where the payload carried a value, set
\* updated_at to the time of the update, and left project_id, prompt, backend
\* and created_at, every other record and the set of records as they were;
\* an update the store refused changed nothing.
C24_UpdateFrame ==
    (IsSome(dblast) /\ Unwrap(dblast).op = "update") =>
        LET e == Unwrap(dblast)
            id == e.project_id
            u == e.update
        IN  /\ DOMAIN e.after = DOMAIN e.before
            /\ \A other \in DOMAIN e.before \ {id} : e.after[other] = e.before[other]
            /\ e.result = "Err" => e.after = e.before
            /\ (e.result = "Ok" /\ id \in DOMAIN e.before) =>
                  /\ e.after[id].status =
                        IF IsSome(u.status) THEN Unwrap(u.status) ELSE e.before[id].status
                  /\ e.after[id].files =
                        IF IsSome(u.files) THEN Unwrap(u.files) ELSE e.before[id].files
                  /\ e.after[id].output =
                        IF IsSome(u.output) THEN Unwrap(u.output) ELSE e.before[id].output
                  /\ e.after[id].metadata =
                        IF IsSome(u.metadata) THEN u.metadata ELSE e.before[id].metadata
                  /\ e.after[id].updated_at = e.time
                  /\ e.after[id].project_id = e.before[id].project_id
                  /\ e.after[id].prompt = e.before[id].prompt
                  /\ e.after[id].backend = e.before[id].backend
                  /\ e.after[id].created_at = e.before[id].created_at

\* A Completed record with its file got an update carrying metadata alone,
\* later than its previous update: only metadata and updated_at changed.
C24_Witness ==
    /\ IsSome(dblast)
    /\ LET e == Unwrap(dblast)
       IN  /\ e.op = "update" /\ e.result = "Ok"
           /\ e.project_id \in DOMAIN e.before
           /\ e.update = ProjectUpdate(None, None, None, Some("metadata"))
           /\ e.before[e.project_id].status = Completed
           /\ e.before[e.project_id].files # <<>>
           /\ e.before[e.project_id].updated_at < e.time
           /\ e.after[e.project_id].updated_at > e.after[e.project_id].created_at

\* C25: an update for an id that has no record reports an outcome other
\* than success to its caller and changes no record.
C25_UpdateMissingNotFound ==
    (/\ IsSome(dblast)
     /\ Unwrap(dblast).op = "update"
     /\ Unwrap(dblast).project_id \notin DOMAIN Unwrap(dblast).before) =>
        /\ Unwrap(dblast).result # "Ok"
        /\ Unwrap(dblast).after = Unwrap(dblast).before

\* C26: every job whose record was created eventually has status Completed
\* or Failed.
C26_EventuallyTerminal ==
    \A id \in ProjectIds :
        (id \in DOMAIN store) ~> (id \in DOMAIN store /\ store[id].status \in Terminal)

\* C27: a submit whose create failed has answered with an error, and for the
\* id it drew there is no record, no task was spawned, and neither a store
\* update nor a call to the AI core is ever made; only an answered submit
\* whose create failed shows a failed create.
C27_CreateFailureStops ==
    /\ \A r \in DOMAIN http :
          http[r].pc = "error" =>
              /\ log[IdOf(r)] = <<"create_err">>
              /\ IdOf(r) \notin DOMAIN store
              /\ spawns[IdOf(r)] = 0
              /\ task[IdOf(r)] = NoTask
              /\ answer[IdOf(r)] = None
    /\ \A id \in ProjectIds :
          Occurs("create_err", log[id]) =>
              \E r \in DOMAIN http : IdOf(r) = id /\ http[r].pc = "error"

\* One submit failed at its create; a later one was accepted and its job has
\* run through all its updates and ended Completed.
C27_Witness ==
    /\ Len(http) = 2
    /\ http[1].pc = "error"
    /\ http[2].pc = "accepted"
    /\ task[IdOf(2)].pc = "done"
    /\ store[IdOf(2)].status = Completed

\* C28: once the Completed update of a job was refused, its generation
\* having succeeded, the task sends exactly one more update, a Failed one
\* whose output describes the persistence failure.  When that one is applied
\* the job ends Failed with this description; when it is refused too the
\* task ends, the job stays Generating and nothing more is sent.
C28_PersistFailureMarksFailed ==
    \A id \in ProjectIds :
        Occurs("Completed_err", log[id]) =>
            LET l == log[id]
                message == "Failed to update project with results"
            IN  /\ AnswerKind(id) = "ok"
                /\ Count("Completed_err", l) = 1 /\ ~Occurs("Completed", l)
                /\ task[id].pc \in {"failing", "done"}
                /\ task[id].pc = "failing" =>
                      /\ l[Len(l)] = "Completed_err"
                      /\ task[id].update = FailedUpdate(message)
                      /\ store[id].status = Generating
                /\ task[id].pc = "done" =>
                      /\ l[Len(l) - 1] = "Completed_err"
                      /\ \/ /\ l[Len(l)] = "Failed"
                            /\ store[id].status = Failed
                            /\ store[id].output = message
                         \/ /\ l[Len(l)] = "Failed_err"
                            /\ store[id].status = Generating

\* Two jobs whose Completed update was refused have run to their end: one
\* is Failed, the other, whose Failed update was refused too, is Generating.
C28_Witness ==
    \E id, other \in DOMAIN store :
        /\ Occurs("Completed_err", log[id]) /\ Occurs("Completed_err", log[other])
        /\ task[id].pc = "done" /\ task[other].pc = "done"
        /\ AnswerKind(id) = "ok" /\ store[id].status = Failed
        /\ Occurs("Failed_err", log[other]) /\ store[other].status = Generating

\* C29: is_allowed answers true exactly when get_remaining_requests, asked
\* for the same client at the same instant just before it, answers more than
\* 0; after a denial get_remaining_requests answers 0, and after an allowed
\* call it answers 1 less than before it.  The same holds between the
\* answers actually given by neighbouring calls.
C29_AdmitAgreesWithRemaining ==
    \A k \in 1..Len(calllog) :
        LET e == calllog[k]
            remaining_before == get_remaining_requests(e.before, e.client, e.time)
            remaining_after == get_remaining_requests(e.after, e.client, e.time)
        IN  e.op = "is_allowed" =>
                /\ e.allowed = (remaining_before > 0)
                /\ ~e.allowed => (remaining_before = 0 /\ remaining_after = 0)
                /\ e.allowed => remaining_after = remaining_before - 1
                /\ (/\ k > 1
                    /\ calllog[k - 1].op = "remaining"
                    /\ calllog[k - 1].client = e.client
                    /\ calllog[k - 1].time = e.time) =>
                        e.allowed = (calllog[k - 1].count > 0)
                /\ (/\ k > 1 /\ k < Len(calllog)
                    /\ calllog[k - 1].op = "remaining" /\ calllog[k + 1].op = "remaining"
                    /\ calllog[k - 1].client = e.client /\ calllog[k + 1].client = e.client
                    /\ calllog[k - 1].time = e.time /\ calllog[k + 1].time = e.time) =>
                        calllog[k + 1].count =
                            IF e.allowed THEN calllog[k - 1].count - 1 ELSE 0

\* Between two get_remaining_requests calls at one instant a client was
\* allowed, the count dropping by 1 to 0, and its next call was denied.
C29_Witness ==
    \E k \in 2..(Len(calllog) - 2) :
        LET c == calllog[k].client
        IN  /\ calllog[k - 1].op = "remaining" /\ calllog[k - 1].client = c
            /\ calllog[k].op = "is_allowed" /\ calllog[k].allowed
            /\ calllog[k + 1].op = "remaining" /\ calllog[k + 1].client = c
            /\ calllog[k + 1].time = calllog[k - 1].time
            /\ calllog[k + 1].count = 0
            /\ calllog[k + 2].op = "is_allowed" /\ calllog[k + 2].client = c
            /\ ~calllog[k + 2].allowed

\* The entries of a response that have a string name, content and language,
\* in the order of the response (none when data.files is not an array).
Usable(body) ==
    SelectSeq(UnwrapOr(body.files, <<>>),
              LAMBDA f : IsSome(f.name) /\ IsSome(f.content) /\ IsSome(f.language))

\* C30: for every success response, well-formed or not, the task sends a
\* Completed update and no Failed one unless that update is refused; the
\* update, and the job once it is applied, carry the usable entries in their
\* order (none without a data.files array) and data.output, or "" without it.
C30_MalformedSkipped ==
    \A id \in ProjectIds :
        AnswerKind(id) = "ok" =>
            LET body == Unwrap(answer[id]).body
            IN  /\ task[id].pc \in {"completing", "failing", "done"}
                /\ task[id].pc = "failing" => Occurs("Completed_err", log[id])
                /\ task[id].pc = "completing" =>
                      /\ task[id].update.status = Some(Completed)
                      /\ IsSome(task[id].update.files)
                      /\ SameFiles(Unwrap(task[id].update.files), Usable(body))
                      /\ task[id].update.output = Some(UnwrapOr(body.output, ""))
                /\ Occurs("Completed", log[id]) =>
                      /\ store[id].status = Completed
                      /\ SameFiles(store[id].files, Usable(body))
                      /\ store[id].output = UnwrapOr(body.output, "")

\* A job is Completed with main.rs and lib.rs, in this order, and no output
\* from a response that had an entry without a name between them and no
\* data.output; another is Completed with no files from a response without
\* data.files.
C30_Witness ==
    \E id, other \in DOMAIN store :
        /\ AnswerKind(id) = "ok"
        /\ Unwrap(answer[id]).body = Body(Some(<<EntryMain, EntryNoName, EntryLib>>), None)
        /\ store[id].status = Completed
        /\ Len(store[id].files) = 2
        /\ store[id].files[1].name = "main.rs" /\ store[id].files[2].name = "lib.rs"
        /\ store[id].output = ""
        /\ AnswerKind(other) = "ok"
        /\ Unwrap(answer[other]).body = Body(None, None)
        /\ store[other].status = Completed
        /\ store[other].files = <<>>

\* The store updates the task of a job has issued, applied or refused.
UpdateEvents == {"Generating", "Generating_err", "Completed", "Completed_err",
                 "Failed", "Failed_err"}
Updates(l) == SelectSeq(l, LAMBDA e : e \in UpdateEvents)

\* C31: for every job id, at most one update setting the status to Completed
\* or Failed has been applied, the task has issued at most 3 updates in all
\* (the Generating one, the Completed one and the Failed one, in this
\* order), and a task at an update it has yet to complete has issued at most 2.
C31_AtMostOneTerminalUpdate ==
    \A id \in ProjectIds :
        LET l == log[id]
        IN  /\ Count("Completed", l) + Count("Failed", l) <= 1
            /\ Len(Updates(l)) <= 3
            /\ task[id].pc \in {"spawned", "completing", "failing"} =>
                  Len(Updates(l)) <= 2
            /\ Count("Generating", l) + Count("Generating_err", l) <= 1
            /\ Count("Completed", l) + Count("Completed_err", l) <= 1
            /\ Count("Failed", l) + Count("Failed_err", l) <= 1

\* The task of a job issued three updates, of which the last, the Failed
\* one, is the only terminal one applied; the task of another issued three
\* of which no terminal one was applied.
C31_Witness ==
    \E id, other \in ProjectIds :
        /\ Updates(log[id]) = <<"Generating", "Completed_err", "Failed">>
        /\ Updates(log[other]) = <<"Generating", "Completed_err", "Failed_err">>
        /\ task[id].pc = "done" /\ task[other].pc = "done"

====
